---- MODULE Spec2Model ----
(***************************************************************************)
(* Model of the `fuzzydate` class (src/fuzzydate/fuzzydate.py): a date     *)
(* whose month and day may be unknown, its constructor, its marker-aware   *)
(* ISO parser and formatter, its disabled strict ISO entry points and its  *)
(* repr.                                                                   *)
(*                                                                         *)
(* A Python str is a sequence of characters; a character is a TLA+ string  *)
(* naming it ("0", "-", "?", ...).  "U+0663" is ARABIC-INDIC DIGIT THREE,  *)
(* a character that is not in string.digits but that int() reads as 3.     *)
(* An optional integer is <<>> (None) or <<n>>.                            *)
(***************************************************************************)
EXTENDS Integers, Sequences, FiniteSets, TLC

\* ------------------------------------------------------------------------
\* Bounds of the explored inputs
\* ------------------------------------------------------------------------
MaxMonthArg == 13   \* constructor months range over -1 .. MaxMonthArg
MaxDayArg == 32     \* constructor days range over -1 .. MaxDayArg
MaxStrLen == 11     \* wrong-length parser inputs have lengths 0 .. MaxStrLen

\* ------------------------------------------------------------------------
\* Python values
\* ------------------------------------------------------------------------
None == <<>>

Some(n) == <<n>>

\* normal return of a call
Return(v) == [exc |-> "", msg |-> "", val |-> v]

\* a raised exception: its class and the fixed head of its message
Raise(e, m) == [exc |-> e, msg |-> m, val |-> None]

\* string.digits
AsciiDigits == <<"0", "1", "2", "3", "4", "5", "6", "7", "8", "9">>

\* the characters int() reads as decimal digits (Unicode category Nd)
IsDigit(c) == c \in {"0", "1", "2", "3", "4", "5", "6", "7", "8", "9", "U+0663"}

DigitValue(c) ==
    IF c = "U+0663" THEN 3
    ELSE (CHOOSE i \in 1..10 : AsciiDigits[i] = c) - 1

\* the characters str.strip() / int() treat as white space
IsSpace(c) == c = " "

RECURSIVE LStrip(_)
LStrip(s) == IF s # <<>> /\ IsSpace(Head(s)) THEN LStrip(Tail(s)) ELSE s

RECURSIVE RStrip(_)
RStrip(s) ==
    IF s # <<>> /\ IsSpace(s[Len(s)]) THEN RStrip(SubSeq(s, 1, Len(s) - 1)) ELSE s

\* digits, with single underscores allowed between two digits
DigitBodyOk(b) ==
    /\ b # <<>>
    /\ \A i \in 1..Len(b) :
          \/ IsDigit(b[i])
          \/ /\ b[i] = "_"
             /\ i > 1 /\ i < Len(b)
             /\ IsDigit(b[i - 1]) /\ IsDigit(b[i + 1])

RECURSIVE DigitBodyValue(_, _)
DigitBodyValue(b, acc) ==
    IF b = <<>> THEN acc
    ELSE IF Head(b) = "_" THEN DigitBodyValue(Tail(b), acc)
    ELSE DigitBodyValue(Tail(b), 10 * acc + DigitValue(Head(b)))

\* int(s) for a str s, base 10: None stands for ValueError
PyInt(s) ==
    LET t == RStrip(LStrip(s))
        signed == t # <<>> /\ Head(t) \in {"+", "-"}
        b == IF signed THEN Tail(t) ELSE t
    IN  IF ~DigitBodyOk(b) THEN None
        ELSE IF signed /\ Head(t) = "-" THEN Some(0 - DigitBodyValue(b, 0))
        ELSE Some(DigitBodyValue(b, 0))

RECURSIVE DecimalDigits(_)
DecimalDigits(n) ==
    IF n < 10 THEN <<AsciiDigits[n + 1]>>
    ELSE Append(DecimalDigits(n \div 10), AsciiDigits[(n % 10) + 1])

\* str(n) for an int n
PyStr(n) == IF n < 0 THEN <<"-">> \o DecimalDigits(0 - n) ELSE DecimalDigits(n)

RECURSIVE ZeroFill(_, _)
ZeroFill(s, width) == IF Len(s) >= width THEN s ELSE ZeroFill(<<"0">> \o s, width)

\* "%0<width>d" % n : the sign counts in the width, wider values are not cut
ZeroPad(n, width) ==
    IF n < 0 THEN <<"-">> \o ZeroFill(DecimalDigits(0 - n), width - 1)
    ELSE ZeroFill(DecimalDigits(n), width)

\* ------------------------------------------------------------------------
\* datetime.date, as far as fuzzydate relies on it
\* ------------------------------------------------------------------------
MINYEAR == 1

MAXYEAR == 9999

IsLeap(y) == y % 4 = 0 /\ (y % 100 # 0 \/ y % 400 = 0)

DaysInMonth(y, m) ==
    IF m = 2 THEN (IF IsLeap(y) THEN 29 ELSE 28)
    ELSE IF m \in {4, 6, 9, 11} THEN 30
    ELSE 31

\* date.__new__(cls, year, month, day): the checks, in date's order
date_new(year, month, day) ==
    IF year < MINYEAR \/ year > MAXYEAR
        THEN Raise("ValueError", "year is out of range")
    ELSE IF month < 1 \/ month > 12
        THEN Raise("ValueError", "month must be in 1..12")
    ELSE IF day < 1 \/ day > DaysInMonth(year, month)
        THEN Raise("ValueError", "day is out of range for month")
    ELSE Return([year |-> year, month |-> month, day |-> day])

\* ------------------------------------------------------------------------
\* fuzzydate
\* ------------------------------------------------------------------------
\* variant of new: the calendar check made before the combination check
new_ValidityFirst(year, month, day) ==
    LET fuzzy_month == month = None
        fuzzy_day == day = None
        m == IF fuzzy_month THEN 1 ELSE month[1]
        d == IF fuzzy_day THEN 1 ELSE day[1]
        self == date_new(year, m, d)
    IN  IF self.exc # "" THEN self
        ELSE IF fuzzy_month /\ ~fuzzy_day
            THEN Raise("ValueError", "A date cannot have a fuzzy month and a defined day")
        ELSE Return([year |-> self.val.year, month |-> self.val.month,
                     day |-> self.val.day,
                     fuzzy_month |-> fuzzy_month, fuzzy_day |-> fuzzy_day])

\* variant of new: the combination check left out
new_NoCombinationRule(year, month, day) ==
    LET fuzzy_month == month = None
        fuzzy_day == day = None
        m == IF fuzzy_month THEN 1 ELSE month[1]
        d == IF fuzzy_day THEN 1 ELSE day[1]
        self == date_new(year, m, d)
    IN  IF self.exc # "" THEN self
        ELSE Return([year |-> self.val.year, month |-> self.val.month,
                     day |-> self.val.day,
                     fuzzy_month |-> fuzzy_month, fuzzy_day |-> fuzzy_day])

\* fuzzydate.__new__(cls, year, month=None, day=None)
new(year, month, day) ==
    LET fuzzy_month == month = None
        fuzzy_day == day = None
        m == IF fuzzy_month THEN 1 ELSE month[1]
        d == IF fuzzy_day THEN 1 ELSE day[1]
        self == date_new(year, m, d)
    IN  IF fuzzy_month /\ ~fuzzy_day
            THEN Raise("ValueError", "A date cannot have a fuzzy month and a defined day")
        ELSE IF self.exc # "" THEN self
        ELSE Return([year |-> self.val.year, month |-> self.val.month,
                     day |-> self.val.day,
                     fuzzy_month |-> fuzzy_month, fuzzy_day |-> fuzzy_day])

NotSupported(m) == Raise("NotImplementedError", m)

\* fuzzydate.fromisoformat(date_string)
fromisoformat(date_string) ==
    NotSupported("fromisoformat is not supported for fuzzy dates; use fuzzy_fromisoformat instead")

\* variant of fuzzy_fromisoformat: the year parsed before the day and month
fuzzy_fromisoformat_YearFirst(date_string) ==
    IF date_string.type # "str"
        THEN Raise("TypeError", "fuzzy_fromisoformat: argument must be str")
    ELSE
    LET s == date_string.chars IN
    IF Len(s) # 10
        THEN Raise("ValueError", "Invalid fuzzy isoformat string")
    ELSE IF s[5] # "-" \/ s[8] # "-"
        THEN Raise("ValueError", "Invalid date separator")
    ELSE
    LET yyyy == SubSeq(s, 1, 4)
        mm == SubSeq(s, 6, 7)
        dd == SubSeq(s, 9, 10)
        day == PyInt(dd)
        month == PyInt(mm)
        year == PyInt(yyyy)
    IN  IF year = None
            THEN Raise("ValueError", "Invalid year")
        ELSE IF day = None /\ dd[1] # dd[2]
            THEN Raise("ValueError", "Inconsistent marker usage in fuzzy date")
        ELSE IF month = None /\ (mm[1] # mm[2] \/ (day = None /\ mm[1] # dd[1]))
            THEN Raise("ValueError", "Inconsistent marker usage in fuzzy date")
        ELSE new(year[1], month, day)

\* variant of fuzzy_fromisoformat: the month marker always compared with the
\* first character of the day field
fuzzy_fromisoformat_AlwaysCompare(date_string) ==
    IF date_string.type # "str"
        THEN Raise("TypeError", "fuzzy_fromisoformat: argument must be str")
    ELSE
    LET s == date_string.chars IN
    IF Len(s) # 10
        THEN Raise("ValueError", "Invalid fuzzy isoformat string")
    ELSE IF s[5] # "-" \/ s[8] # "-"
        THEN Raise("ValueError", "Invalid date separator")
    ELSE
    LET yyyy == SubSeq(s, 1, 4)
        mm == SubSeq(s, 6, 7)
        dd == SubSeq(s, 9, 10)
        day == PyInt(dd)
        month == PyInt(mm)
        year == PyInt(yyyy)
    IN  IF day = None /\ dd[1] # dd[2]
            THEN Raise("ValueError", "Inconsistent marker usage in fuzzy date")
        ELSE IF month = None /\ (mm[1] # mm[2] \/ mm[1] # dd[1])
            THEN Raise("ValueError", "Inconsistent marker usage in fuzzy date")
        ELSE IF year = None
            THEN Raise("ValueError", "Invalid year")
        ELSE new(year[1], month, day)

\* fuzzydate.fuzzy_fromisoformat(date_string); a value is [type, chars]
fuzzy_fromisoformat(date_string) ==
    IF date_string.type # "str"
        THEN Raise("TypeError", "fuzzy_fromisoformat: argument must be str")
    ELSE
    LET s == date_string.chars IN
    IF Len(s) # 10
        THEN Raise("ValueError", "Invalid fuzzy isoformat string")
    ELSE IF s[5] # "-" \/ s[8] # "-"
        THEN Raise("ValueError", "Invalid date separator")
    ELSE
    LET yyyy == SubSeq(s, 1, 4)
        mm == SubSeq(s, 6, 7)
        dd == SubSeq(s, 9, 10)
        day == PyInt(dd)
        month == PyInt(mm)
        year == PyInt(yyyy)
    IN  IF day = None /\ dd[1] # dd[2]
            THEN Raise("ValueError", "Inconsistent marker usage in fuzzy date")
        ELSE IF month = None /\ (mm[1] # mm[2] \/ (day = None /\ mm[1] # dd[1]))
            THEN Raise("ValueError", "Inconsistent marker usage in fuzzy date")
        ELSE IF year = None
            THEN Raise("ValueError", "Invalid year")
        ELSE new(year[1], month, day)

\* fuzzydate.isoformat(self)
isoformat(self) ==
    NotSupported("isoformat is not supported for fuzzy dates; use fuzzy_isoformat instead")

\* marker in string.digits: the substring test of str
InAsciiDigits(marker) ==
    \E i \in 0..(Len(AsciiDigits) - Len(marker)) :
        SubSeq(AsciiDigits, i + 1, i + Len(marker)) = marker

\* variant of fuzzy_isoformat: the numbers written without zero padding
fuzzy_isoformat_NoPadding(self, marker) ==
    IF Len(marker) # 1 \/ InAsciiDigits(marker)
        THEN Raise("ValueError", "Invalid fuzzy marker")
    ELSE
    LET yyyy == PyStr(self.year)
        mm == IF self.fuzzy_month THEN marker \o marker ELSE PyStr(self.month)
        dd == IF self.fuzzy_day THEN marker \o marker ELSE PyStr(self.day)
    IN  Return(yyyy \o <<"-">> \o mm \o <<"-">> \o dd)

\* fuzzydate.fuzzy_isoformat(self, marker="?")
fuzzy_isoformat(self, marker) ==
    IF Len(marker) # 1 \/ InAsciiDigits(marker)
        THEN Raise("ValueError", "Invalid fuzzy marker")
    ELSE
    LET yyyy == ZeroPad(self.year, 4)
        mm == IF self.fuzzy_month THEN marker \o marker ELSE ZeroPad(self.month, 2)
        dd == IF self.fuzzy_day THEN marker \o marker ELSE ZeroPad(self.day, 2)
    IN  Return(yyyy \o <<"-">> \o mm \o <<"-">> \o dd)

\* the default of the marker parameter of fuzzy_isoformat
DefaultMarker == <<"?">>

\* variant of str: __str__ left to date, whose __str__ calls self.isoformat()
str_Inherited(self) == isoformat(self)

\* fuzzydate.__str__ = fuzzy_isoformat, called by str() with no marker
str(self) == fuzzy_isoformat(self, DefaultMarker)

\* str(None)
NoneText == <<"N", "o", "n", "e">>

\* self.__class__.__qualname__
QualName == <<"f", "u", "z", "z", "y", "d", "a", "t", "e">>

\* variant of repr: the stored month and day shown
repr_Stored(self) ==
    Return(QualName \o <<"(">> \o PyStr(self.year) \o <<",", " ">> \o PyStr(self.month)
           \o <<",", " ">> \o PyStr(self.day) \o <<")">>)

\* fuzzydate.__repr__(self)
repr(self) ==
    LET month == IF self.fuzzy_month THEN NoneText ELSE PyStr(self.month)
        day == IF self.fuzzy_day THEN NoneText ELSE PyStr(self.day)
    IN  Return(QualName \o <<"(">> \o PyStr(self.year) \o <<",", " ">> \o month
               \o <<",", " ">> \o day \o <<")">>)

\* ------------------------------------------------------------------------
\* Reading a repr back: the arguments of the call expression it shows
\* ------------------------------------------------------------------------
RECURSIVE SplitOn(_, _, _)
\* the pieces of s between occurrences of the character c (cur: piece so far)
SplitOn(s, c, cur) ==
    IF s = <<>> THEN <<cur>>
    ELSE IF Head(s) = c THEN <<cur>> \o SplitOn(Tail(s), c, <<>>)
    ELSE SplitOn(Tail(s), c, Append(cur, Head(s)))

\* the value of one argument: None, or a decimal integer literal
ArgValue(a) == IF LStrip(a) = NoneText THEN None ELSE PyInt(a)

\* the argument list of "fuzzydate(a, b, c)"
ReprArgs(text) ==
    LET inner == SubSeq(text, Len(QualName) + 2, Len(text) - 1)
        parts == SplitOn(inner, ",", <<>>)
    IN  [i \in 1..Len(parts) |-> ArgValue(parts[i])]

\* evaluating a repr: the constructor applied to the shown arguments
EvalRepr(text) ==
    LET a == ReprArgs(text) IN new(a[1][1], a[2], a[3])

\* ------------------------------------------------------------------------
\* Inputs
\* ------------------------------------------------------------------------
YearArgs == {0, 1, 1900, 2000, 2020, 2023, 9999, 10000}

MonthArgs == {None} \cup {Some(m) : m \in (0 - 1)..MaxMonthArg}

DayArgs == {None} \cup {Some(d) : d \in (0 - 1)..MaxDayArg}

PyString(chars) == [type |-> "str", chars |-> chars]

PyBytes(chars) == [type |-> "bytes", chars |-> chars]

\* characters tried in the month and day fields
FieldChars == {"0", "1", "2", "3", "?", "#", "+", "-", " ", "U+0663"}

Fields == {<<a, b>> : a, b \in FieldChars}

YearFields ==
    { <<"2", "0", "2", "0">>, <<"2", "0", "2", "3">>, <<"0", "0", "0", "0">>,
      <<"9", "9", "9", "9">>, <<"?", "?", "?", "?">>, <<"+", "2", "0", "2">>,
      <<"2", "_", "0", "2">>, <<" ", "9", "9", "9">>, <<"2", "0", " ", "0">>,
      <<"-", "0", "0", "1">> }

IsoText(yyyy, s1, mm, s2, dd) == yyyy \o <<s1>> \o mm \o <<s2>> \o dd

WellSeparated ==
    {PyString(IsoText(y, "-", m, "-", d)) : y \in YearFields, m \in Fields, d \in Fields}

\* fields tried together with a wrong separator
FewFields == {<<a, b>> : a, b \in {"0", "1", "?", "#"}}

BadSeparated ==
    {PyString(IsoText(y, p[1], m, p[2], d)) :
        y \in {<<"2", "0", "2", "0">>, <<"?", "?", "?", "?">>},
        p \in {<<"_", "-">>, <<"-", "/">>, <<"_", "_">>, <<"1", "-">>},
        m \in FewFields, d \in FewFields}

SampleText == <<"2", "0", "2", "0", "-", "0", "1", "-", "?", "?">>

\* a text of n characters: SampleText cut, or continued with its last character
TextOfLen(n) == [i \in 1..n |-> IF i <= Len(SampleText) THEN SampleText[i] ELSE "?"]

WrongLength == {PyString(TextOfLen(n)) : n \in (0..MaxStrLen) \ {10}}

NotStr == {PyBytes(SampleText), PyBytes(TextOfLen(3))}

DateStrings == WellSeparated \cup BadSeparated \cup WrongLength \cup NotStr

\* arguments tried on the strict entry point
StrictStrings ==
    BadSeparated \cup WrongLength \cup NotStr
        \cup {PyString(<<"2", "0", "2", "0", "-", "0", "6", "-", "2", "7">>)}

Markers ==
    { <<"?">>, <<"#">>, <<"+">>, <<"-">>, <<" ">>, <<"_">>, <<"U+0663">>,
      <<"9">>, <<"0">>, <<>>, <<"?", "?">>, <<"#", "#", "#">>, <<"0", "1">> }

\* ------------------------------------------------------------------------
\* State: the instance at hand and the calls made so far
\* ------------------------------------------------------------------------
VARIABLES obj, hist

vars == <<obj, hist>>

Call(op, arg, ret) == [op |-> op, arg |-> arg, ret |-> ret]

Last == hist[Len(hist)]

Init ==
    /\ obj = None
    /\ hist = <<>>

\* x = fuzzydate(year, month, day)
DoNew ==
    /\ hist = <<>>
    /\ \E year \in YearArgs, month \in MonthArgs, day \in DayArgs :
          LET r == new(year, month, day) IN
          /\ hist' = <<Call("__new__", <<year, month, day>>, r)>>
          /\ obj' = IF r.exc = "" THEN Some(r.val) ELSE None

\* x = fuzzydate.fuzzy_fromisoformat(date_string)
DoFuzzyFromisoformat ==
    /\ hist = <<>>
    /\ \E date_string \in DateStrings :
          LET r == fuzzy_fromisoformat(date_string) IN
          /\ hist' = <<Call("fuzzy_fromisoformat", date_string, r)>>
          /\ obj' = IF r.exc = "" THEN Some(r.val) ELSE None

\* x = fuzzydate.fromisoformat(date_string)
DoFromisoformat ==
    /\ hist = <<>>
    /\ \E date_string \in StrictStrings :
          LET r == fromisoformat(date_string) IN
          /\ hist' = <<Call("fromisoformat", date_string, r)>>
          /\ obj' = IF r.exc = "" THEN Some(r.val) ELSE None

\* x.fuzzy_isoformat(marker)
DoFuzzyIsoformat ==
    /\ Len(hist) = 1 /\ obj # None
    /\ \E marker \in Markers :
          hist' = Append(hist, Call("fuzzy_isoformat", marker,
                                    fuzzy_isoformat(obj[1], marker)))
    /\ UNCHANGED obj

\* str(x)
DoStr ==
    /\ Len(hist) = 1 /\ obj # None
    /\ hist' = Append(hist, Call("__str__", None, str(obj[1])))
    /\ UNCHANGED obj

\* x.isoformat()
DoIsoformat ==
    /\ Len(hist) = 1 /\ obj # None
    /\ hist' = Append(hist, Call("isoformat", None, isoformat(obj[1])))
    /\ UNCHANGED obj

\* repr(x)
DoRepr ==
    /\ Len(hist) = 1 /\ obj # None
    /\ hist' = Append(hist, Call("__repr__", None, repr(obj[1])))
    /\ UNCHANGED obj

\* fuzzydate.fuzzy_fromisoformat(t) for the text t just formatted from x
DoParseBack ==
    /\ Len(hist) = 2
    /\ Last.op \in {"fuzzy_isoformat", "__str__"} /\ Last.ret.exc = ""
    /\ hist' = Append(hist, Call("fuzzy_fromisoformat", PyString(Last.ret.val),
                                 fuzzy_fromisoformat(PyString(Last.ret.val))))
    /\ UNCHANGED obj

\* eval(t) for the repr t just taken from x
DoEvalRepr ==
    /\ Len(hist) = 2
    /\ Last.op = "__repr__" /\ Last.ret.exc = ""
    /\ hist' = Append(hist, Call("eval", Last.ret.val, EvalRepr(Last.ret.val)))
    /\ UNCHANGED obj

Next ==
    \/ DoNew
    \/ DoFuzzyFromisoformat
    \/ DoFromisoformat
    \/ DoFuzzyIsoformat
    \/ DoStr
    \/ DoIsoformat
    \/ DoRepr
    \/ DoParseBack
    \/ DoEvalRepr

Spec == Init /\ [][Next]_vars

\* ------------------------------------------------------------------------
\* Properties
\* ------------------------------------------------------------------------
\* the kind of outcome of a call, in the error taxonomy of the design
ErrKind(r) ==
    IF r.exc = "" THEN "ok"
    ELSE IF r.exc = "TypeError" THEN "TypeError"
    ELSE IF r.exc = "NotImplementedError" THEN "NotSupported"
    ELSE IF r.msg = "A date cannot have a fuzzy month and a defined day"
        THEN "InvalidCombination"
    ELSE IF r.msg = "Invalid fuzzy isoformat string" THEN "InvalidLength"
    ELSE IF r.msg = "Invalid date separator" THEN "InvalidSeparator"
    ELSE IF r.msg = "Inconsistent marker usage in fuzzy date" THEN "InconsistentMarker"
    ELSE IF r.msg = "Invalid year" THEN "InvalidYear"
    ELSE IF r.msg = "Invalid fuzzy marker" THEN "InvalidMarker"
    ELSE "InvalidDate"

\* (y, m, d) is a date of the proleptic Gregorian calendar in years 1..9999
IsCalendarDate(y, m, d) ==
    /\ y \in 1..9999
    /\ m \in 1..12
    /\ d >= 1
    /\ d <= (IF m = 2 THEN (IF y % 4 = 0 /\ (y % 100 # 0 \/ y % 400 = 0) THEN 29 ELSE 28)
             ELSE IF m \in {4, 6, 9, 11} THEN 30 ELSE 31)

\* the logical month or day of an instance: None when fuzzy
LogicalMonth(x) == IF x.fuzzy_month THEN None ELSE Some(x.month)

LogicalDay(x) == IF x.fuzzy_day THEN None ELSE Some(x.day)

\* same year, same flags, same values of the non-fuzzy fields
SameLogical(x, y) ==
    /\ x.year = y.year
    /\ x.fuzzy_month = y.fuzzy_month
    /\ x.fuzzy_day = y.fuzzy_day
    /\ LogicalMonth(x) = LogicalMonth(y)
    /\ LogicalDay(x) = LogicalDay(y)

Calls == {hist[i] : i \in 1..Len(hist)}

\* C1: the constructor fails with InvalidCombination when month is absent
\* and day present, whatever year and day are; otherwise it succeeds when
\* the triple with absent fields read as 1 is a calendar date, storing the
\* year, the flags and every supplied field as given; otherwise it fails
\* with InvalidDate.
C1_Constructor ==
    \A c \in Calls : c.op = "__new__" =>
        LET year == c.arg[1]
            month == c.arg[2]
            day == c.arg[3]
            m == IF month = None THEN 1 ELSE month[1]
            d == IF day = None THEN 1 ELSE day[1]
        IN  IF month = None /\ day # None
                THEN ErrKind(c.ret) = "InvalidCombination"
            ELSE IF IsCalendarDate(year, m, d)
                THEN /\ c.ret.exc = ""
                     /\ c.ret.val.year = year
                     /\ c.ret.val.fuzzy_month = (month = None)
                     /\ c.ret.val.fuzzy_day = (day = None)
                     /\ (month # None => c.ret.val.month = month[1])
                     /\ (day # None => c.ret.val.day = day[1])
            ELSE ErrKind(c.ret) = "InvalidDate"

\* C1 witness: month absent, day present and out of range, year out of range
C1_Witness ==
    /\ Len(hist) = 1 /\ hist[1].op = "__new__"
    /\ hist[1].arg = <<0, None, Some(32)>>
    /\ ErrKind(hist[1].ret) = "InvalidCombination"

\* the invariants of an instance
InstanceOk(x) ==
    /\ x.fuzzy_month => x.fuzzy_day
    /\ x.fuzzy_month => x.month = 1
    /\ x.fuzzy_day => x.day = 1
    /\ IsCalendarDate(x.year, x.month, x.day)

\* C2: every instance obtained from the constructor or from the fuzzy ISO
\* parser has fuzzy_month => fuzzy_day, fuzzy_month => month = 1,
\* fuzzy_day => day = 1, and a stored (year, month, day) that is a
\* calendar date.
C2_InstanceInvariant ==
    /\ obj # None => InstanceOk(obj[1])
    /\ \A c \in Calls :
          (c.op \in {"__new__", "fuzzy_fromisoformat", "eval"} /\ c.ret.exc = "")
              => InstanceOk(c.ret.val)

\* C2 witness: an instance with both fields fuzzy, obtained from the parser
C2_Witness ==
    /\ obj # None /\ obj[1].fuzzy_month /\ obj[1].fuzzy_day
    /\ hist[1].op = "fuzzy_fromisoformat"

\* C3: formatting an instance with any accepted marker and parsing the text
\* succeeds and gives the same year, flags and non-fuzzy field values.
C3_RoundTrip ==
    (Len(hist) = 3 /\ hist[2].op = "fuzzy_isoformat" /\ hist[3].op = "fuzzy_fromisoformat")
        => /\ hist[3].ret.exc = ""
           /\ SameLogical(hist[3].ret.val, obj[1])

\* the outcome the ordered checks of the parser prescribe for an input
FirstFailure(a) ==
    IF a.type # "str" THEN "TypeError"
    ELSE IF Len(a.chars) # 10 THEN "InvalidLength"
    ELSE IF a.chars[5] # "-" \/ a.chars[8] # "-" THEN "InvalidSeparator"
    ELSE
    LET mm == SubSeq(a.chars, 6, 7)
        dd == SubSeq(a.chars, 9, 10)
        year == PyInt(SubSeq(a.chars, 1, 4))
        month == PyInt(mm)
        day == PyInt(dd)
        dayBad == day = None /\ dd[1] # dd[2]
        monthBad == month = None /\ (mm[1] # mm[2] \/ (day = None /\ mm[1] # dd[1]))
        yearBad == year = None
    IN  IF dayBad THEN "InconsistentMarker"
        ELSE IF monthBad THEN "InconsistentMarker"
        ELSE IF yearBad THEN "InvalidYear"
        ELSE IF month = None /\ day # None THEN "InvalidCombination"
        ELSE IF ~IsCalendarDate(year[1], IF month = None THEN 1 ELSE month[1],
                                IF day = None THEN 1 ELSE day[1]) THEN "InvalidDate"
        ELSE "ok"

\* C4: the parser reports the first failing check in the order: not a
\* string, length, separators, day marker, month marker, year, construction.
C4_CheckOrder ==
    \A c \in Calls : c.op = "fuzzy_fromisoformat" => ErrKind(c.ret) = FirstFailure(c.arg)

\* C4 witness: an unparseable year with a mismatched month marker and a
\* numeric day is reported as InconsistentMarker
C4_Witness ==
    /\ Len(hist) = 1 /\ hist[1].op = "fuzzy_fromisoformat"
    /\ hist[1].arg = PyString(<<"?", "?", "?", "?", "-", "?", "#", "-", "0", "1">>)
    /\ ErrKind(hist[1].ret) = "InconsistentMarker"

\* a 10-character string with "-" at indexes 4 and 7
IsShaped(a) ==
    a.type = "str" /\ Len(a.chars) = 10 /\ a.chars[5] = "-" /\ a.chars[8] = "-"

\* C5: a shaped string fails with InconsistentMarker exactly when the day
\* field is unparseable with differing characters, or the month field is,
\* or both are unparseable and their characters differ; a doubled-marker
\* month with a numeric day is never InconsistentMarker and, when the year
\* parses, is rejected by the combination rule.
C5_InconsistentMarker ==
    \A c \in Calls : (c.op = "fuzzy_fromisoformat" /\ IsShaped(c.arg)) =>
        LET mm == SubSeq(c.arg.chars, 6, 7)
            dd == SubSeq(c.arg.chars, 9, 10)
            yearOk == PyInt(SubSeq(c.arg.chars, 1, 4)) # None
            monthOk == PyInt(mm) # None
            dayOk == PyInt(dd) # None
        IN  /\ (ErrKind(c.ret) = "InconsistentMarker")
                  <=> \/ ~dayOk /\ dd[1] # dd[2]
                      \/ ~monthOk /\ mm[1] # mm[2]
                      \/ ~dayOk /\ ~monthOk /\ mm[1] # dd[1]
            /\ (~monthOk /\ mm[1] = mm[2] /\ dayOk) =>
                  /\ ErrKind(c.ret) # "InconsistentMarker"
                  /\ yearOk => ErrKind(c.ret) = "InvalidCombination"

\* C5 witness: a doubled-marker month with a numeric day that begins with
\* another character, rejected by the combination rule
C5_Witness ==
    /\ Len(hist) = 1 /\ hist[1].op = "fuzzy_fromisoformat"
    /\ hist[1].arg = PyString(<<"2", "0", "2", "0", "-", "?", "?", "-", "0", "1">>)
    /\ ErrKind(hist[1].ret) = "InvalidCombination"

\* the decimal digit character of a number 0..9
DigitChar(n) ==
    CASE n = 0 -> "0" [] n = 1 -> "1" [] n = 2 -> "2" [] n = 3 -> "3" [] n = 4 -> "4"
      [] n = 5 -> "5" [] n = 6 -> "6" [] n = 7 -> "7" [] n = 8 -> "8" [] n = 9 -> "9"

\* C6: with a valid marker m ("?" for the default string conversion) the
\* formatter returns 10 characters: the year as 4 zero-padded digits, "-",
\* m twice or the month as 2 zero-padded digits, "-", m twice or the day
\* as 2 zero-padded digits.
C6_Format ==
    \A c \in Calls : (c.op \in {"fuzzy_isoformat", "__str__"} /\ c.ret.exc = "") =>
        LET x == obj[1]
            m == IF c.op = "__str__" THEN "?" ELSE c.arg[1]
            t == c.ret.val
        IN  /\ Len(t) = 10
            /\ t[1] = DigitChar(x.year \div 1000)
            /\ t[2] = DigitChar((x.year \div 100) % 10)
            /\ t[3] = DigitChar((x.year \div 10) % 10)
            /\ t[4] = DigitChar(x.year % 10)
            /\ t[5] = "-"
            /\ t[6] = (IF x.fuzzy_month THEN m ELSE DigitChar(x.month \div 10))
            /\ t[7] = (IF x.fuzzy_month THEN m ELSE DigitChar(x.month % 10))
            /\ t[8] = "-"
            /\ t[9] = (IF x.fuzzy_day THEN m ELSE DigitChar(x.day \div 10))
            /\ t[10] = (IF x.fuzzy_day THEN m ELSE DigitChar(x.day % 10))

\* C6 witness: the default string conversion of a date before year 1000
\* with a known one-digit month and a fuzzy day
C6_Witness ==
    /\ Len(hist) = 2 /\ hist[2].op = "__str__" /\ hist[2].ret.exc = ""
    /\ obj[1].year < 1000 /\ ~obj[1].fuzzy_month /\ obj[1].month < 10
    /\ obj[1].fuzzy_day

\* C7: the formatter fails with InvalidMarker exactly when the marker is not
\* one character or is a decimal digit, for every instance, and returns no
\* string when it fails.
C7_MarkerValidation ==
    \A c \in Calls : c.op = "fuzzy_isoformat" =>
        /\ (ErrKind(c.ret) = "InvalidMarker")
              <=> (Len(c.arg) # 1 \/ IsDigit(c.arg[1]))
        /\ c.ret.exc # "" => c.ret.val = None
        /\ c.ret.exc \in {"", "ValueError"}

\* C8: fromisoformat and isoformat fail with NotSupported on every argument
\* and instance and return nothing, and no other operation of the type
\* ends in that error.
C8_StrictDisabled ==
    \A c \in Calls :
        IF c.op \in {"fromisoformat", "isoformat"}
            THEN ErrKind(c.ret) = "NotSupported" /\ c.ret.val = None
            ELSE ErrKind(c.ret) # "NotSupported"

\* C8 witness: isoformat called on an instance with no fuzzy field, after
\* which the instance is still at hand
C8_Witness ==
    /\ Len(hist) = 2 /\ hist[2].op = "isoformat"
    /\ ~obj[1].fuzzy_month /\ ~obj[1].fuzzy_day
    /\ ErrKind(hist[2].ret) = "NotSupported"

\* C9: the repr is the type name followed by (year, month, day) with None
\* for a fuzzy field and the stored value otherwise, and the constructor
\* applied to the shown fields rebuilds the instance.
C9_Repr ==
    \A c \in Calls :
        /\ c.op = "__repr__" =>
              /\ c.ret.exc = ""
              /\ SubSeq(c.ret.val, 1, Len(QualName) + 1) = QualName \o <<"(">>
              /\ c.ret.val[Len(c.ret.val)] = ")"
              /\ ReprArgs(c.ret.val)
                    = <<Some(obj[1].year), LogicalMonth(obj[1]), LogicalDay(obj[1])>>
        /\ c.op = "eval" =>
              /\ c.ret.exc = ""
              /\ c.ret.val = obj[1]

\* C9 witness: the repr of an instance with a known month and a fuzzy day
\* has been evaluated
C9_Witness ==
    /\ Len(hist) = 3 /\ hist[3].op = "eval"
    /\ ~obj[1].fuzzy_month /\ obj[1].fuzzy_day

\* a field made of ASCII decimal digits only
AllDigits(f) == \A i \in 1..Len(f) : f[i] \in {AsciiDigits[k] : k \in 1..10}

\* a field made of one non-digit character repeated twice
DoubledMarker(f) == Len(f) = 2 /\ f[1] = f[2] /\ ~IsDigit(f[1])

\* the marker occurring in an accepted text ("?" when it has no fuzzy field)
MarkerOf(s) == IF DoubledMarker(SubSeq(s, 9, 10)) THEN <<s[9]>> ELSE DefaultMarker

\* C10: every accepted string has fields made of decimal digits only or
\* (month, day) of a doubled non-digit marker, and formatting the parsed
\* instance with the marker of the string returns the string.
C10_Canonical ==
    (Len(hist) >= 1 /\ hist[1].op = "fuzzy_fromisoformat" /\ hist[1].ret.exc = "") =>
        LET s == hist[1].arg.chars IN
        /\ AllDigits(SubSeq(s, 1, 4))
        /\ AllDigits(SubSeq(s, 6, 7)) \/ DoubledMarker(SubSeq(s, 6, 7))
        /\ AllDigits(SubSeq(s, 9, 10)) \/ DoubledMarker(SubSeq(s, 9, 10))
        /\ (Len(hist) >= 2 /\ hist[2].op = "fuzzy_isoformat" /\ hist[2].arg = MarkerOf(s))
              => hist[2].ret.val = s

====
